---- MODULE Spec2Model ----
(***************************************************************************)
(* Model of nas-tools-complement:                                          *)
(*   app/media/completion_checker.py      CompletionChecker                *)
(*   app/db/migrations/add_completion_fields.py   the RSS_TVS migration    *)
(*   Media.get_media_info                 the two-attempt name lookup      *)
(*                                                                         *)
(* Python values are modelled as records with a type tag "t"; a key that   *)
(* is absent from a dict has the tag "missing".  An exception is the "exc" *)
(* field of an operator's result ("" when nothing was raised).             *)
(***************************************************************************)
EXTENDS Integers, Sequences, FiniteSets, TLC

VARIABLES
    \* ---- CompletionChecker ----
    tmdb_info,        \* the provider record handed to the checker
    now,              \* what datetime.now() returns during the call
    local_exists,     \* argument of check_completion_status
    local_complete,   \* argument of check_completion_status
    called,           \* which method has been called ("" before the call)
    result,           \* what the call returned: status, reason, exc, log
    \* ---- migration ----
    db,               \* the session's view of RSS_TVS: columns and rows
    committed,        \* the last committed state of RSS_TVS
    mpc,              \* position inside the running migration
    entry,            \* entry point of the current run
    mlog,             \* what the current (or last) run did, in order
    runs,             \* one record per finished run, in order
    \* ---- lookup ----
    title,            \* the release title being resolved
    lpc,              \* position inside get_media_info
    search_calls,     \* the query_name of every search call, in order
    search_results,   \* what each search call returned (0 = empty result)
    media_info        \* the MediaRecord being assembled

checker_vars == <<tmdb_info, now, local_exists, local_complete, called, result>>
migration_vars == <<db, committed, mpc, entry, mlog, runs>>
lookup_vars == <<title, lpc, search_calls, search_results, media_info>>
vars == <<checker_vars, migration_vars, lookup_vars>>

(***************************************************************************)
(* Bounds of the model                                                     *)
(***************************************************************************)
\* datetime values are counted in units of 1/UnitsPerDay day
UnitsPerDay == 2
\* the calendar day of datetime.now()
NowDay == 10
\* last_air_date strings name the days 0..MaxLastDay
MaxLastDay == 3
\* next_episode_to_air.air_date strings name the days NowDay-MaxAhead..NowDay+MaxAhead
MaxAhead == 1
\* RSS_TVS holds NumRows rows
NumRows == 2
\* the migration is run at most MaxRuns times in sequence
MaxRuns == 2
\* a search returns the empty result or a record with an id in 1..MaxTmdbId
MaxTmdbId == 2
\* get_media_info is called at most MaxLookups times in sequence
MaxLookups == 3

(***************************************************************************)
(* CompletionStatus (completion_checker.py:16-22)                          *)
(***************************************************************************)
UNKNOWN == "UNKNOWN"
ONGOING == "ONGOING"
COMPLETED_BY_TMDB == "COMPLETED_BY_TMDB"
COMPLETED_BY_LOCAL == "COMPLETED_BY_LOCAL"
SUSPICIOUS_COMPLETED == "SUSPICIOUS_COMPLETED"
CompletionStatus ==
    {UNKNOWN, ONGOING, COMPLETED_BY_TMDB, COMPLETED_BY_LOCAL, SUSPICIOUS_COMPLETED}

\* CompletionChecker.__init__
anime_genre_id == 16
suspicious_days_threshold == 7

(***************************************************************************)
(* Strings are sequences of characters.                                    *)
(***************************************************************************)
Ended == <<"E", "n", "d", "e", "d">>
ReturningSeries ==
    <<"R", "e", "t", "u", "r", "n", "i", "n", "g", " ", "S", "e", "r", "i", "e", "s">>
Whitespace == {" ", "\t", "\n"}

RECURSIVE lstrip(_)
lstrip(s) ==
    IF s # <<>> /\ Head(s) \in Whitespace THEN lstrip(Tail(s)) ELSE s

RECURSIVE rstrip(_)
rstrip(s) ==
    IF s # <<>> /\ s[Len(s)] \in Whitespace
    THEN rstrip(SubSeq(s, 1, Len(s) - 1))
    ELSE s

\* str.strip()
strip(s) == rstrip(lstrip(s))

(***************************************************************************)
(* The provider record.                                                    *)
(***************************************************************************)
\* a value of tmdb_info['status']: absent, a str, or None
StatusValues ==
    {[t |-> "missing", s |-> <<>>], [t |-> "none", s |-> <<>>]}
    \cup {[t |-> "str", s |-> x] :
            x \in {Ended, <<" ">> \o Ended \o <<" ">>, ReturningSeries}}

\* a value of tmdb_info['in_production']
InProductionValues == {"missing", "True", "False"}

\* a date field: absent, None, a str (ISO date, naive or with a UTC offset;
\* something that is no date; the empty string) or an int
NoDate(tag) == [t |-> tag, fmt |-> "", day |-> 0, aware |-> FALSE]
DateValues(days) ==
    {NoDate("missing"), NoDate("int"),
     [t |-> "str", fmt |-> "empty", day |-> 0, aware |-> FALSE],
     [t |-> "str", fmt |-> "bad", day |-> 0, aware |-> FALSE]}
    \cup {[t |-> "str", fmt |-> "iso", day |-> d, aware |-> FALSE] : d \in days}
    \cup {[t |-> "str", fmt |-> "iso", day |-> d, aware |-> TRUE] :
            d \in {x \in days : \A y \in days : x >= y}}

LastAirDates == DateValues(0 .. MaxLastDay)
NextAirDates == DateValues((NowDay - MaxAhead) .. (NowDay + MaxAhead))

\* a value of tmdb_info['next_episode_to_air']: absent, None, a dict, a str
NextEpisodeValues ==
    {[t |-> "missing", air_date |-> NoDate("missing")],
     [t |-> "none", air_date |-> NoDate("missing")],
     [t |-> "str", air_date |-> NoDate("missing")]}
    \cup {[t |-> "dict", air_date |-> d] : d \in NextAirDates}

\* a value of tmdb_info['genre_ids']: absent, a list of int, or None
GenreIdsValues ==
    {[t |-> "missing", ids |-> <<>>], [t |-> "none", ids |-> <<>>],
     [t |-> "list", ids |-> <<18, anime_genre_id>>],
     [t |-> "list", ids |-> <<18>>]}

\* a value of tmdb_info['genres']: absent, a list of items (dicts and
\* others), or None
GenresValues ==
    {[t |-> "missing", items |-> <<>>], [t |-> "none", items |-> <<>>],
     [t |-> "list", items |-> << [dict |-> FALSE, id |-> anime_genre_id],
                                [dict |-> TRUE, id |-> 18],
                                [dict |-> TRUE, id |-> anime_genre_id] >>],
     [t |-> "list", items |-> << [dict |-> FALSE, id |-> anime_genre_id],
                                [dict |-> TRUE, id |-> 18] >>]}

\* Optional[Dict]: None, or a dict (the empty dict has every key missing)
TmdbInfos ==
    [t : {"dict"}, status : StatusValues, in_production : InProductionValues,
     next_episode_to_air : NextEpisodeValues, last_air_date : LastAirDates,
     genre_ids : GenreIdsValues, genres : GenresValues]

EmptyDict ==
    [t |-> "dict", status |-> [t |-> "missing", s |-> <<>>],
     in_production |-> "missing",
     next_episode_to_air |-> [t |-> "missing", air_date |-> NoDate("missing")],
     last_air_date |-> NoDate("missing"),
     genre_ids |-> [t |-> "missing", ids |-> <<>>],
     genres |-> [t |-> "missing", items |-> <<>>]]

None == [EmptyDict EXCEPT !.t = "none"]

(***************************************************************************)
(* Python semantics used by the checker.                                   *)
(***************************************************************************)
\* truthiness of a date field: None, a missing key and '' are falsy
DateTruthy(d) ==
    /\ d.t # "missing"
    /\ ~(d.t = "str" /\ d.fmt = "empty")

\* truthiness of a dict: the empty dict (no key present) and None are falsy
DictTruthy(info) ==
    /\ info.t = "dict"
    /\ \/ info.status.t # "missing"
       \/ info.in_production # "missing"
       \/ info.next_episode_to_air.t # "missing"
       \/ info.last_air_date.t # "missing"
       \/ info.genre_ids.t # "missing"
       \/ info.genres.t # "missing"

\* datetime.fromisoformat(x): TypeError unless x is a str, ValueError unless
\* the str is an ISO date; the date 'day' parses to midnight of that day
fromisoformat(d) ==
    IF d.t # "str" THEN [exc |-> "TypeError", t |-> 0, aware |-> FALSE]
    ELSE IF d.fmt # "iso" THEN [exc |-> "ValueError", t |-> 0, aware |-> FALSE]
    ELSE [exc |-> "", t |-> d.day * UnitsPerDay, aware |-> d.aware]

\* timedelta.days of (a - b): the floor of the difference in days
timedelta_days(a, b) == (a - b) \div UnitsPerDay

\* the reason strings, with the values their f-strings embed
Reason(msg, status, in_production, err) ==
    [msg |-> msg, status |-> status, in_production |-> in_production, err |-> err]
Returns(status, reason, log) ==
    [status |-> status, reason |-> reason, exc |-> "", log |-> log]
Raises(exc, log) ==
    [status |-> "", reason |-> Reason("", <<>>, "", ""), exc |-> exc, log |-> log]

(***************************************************************************)
(* CompletionChecker._is_anime (completion_checker.py:124-146)             *)
(***************************************************************************)
_is_anime(info) ==
    LET genre_ids == info.genre_ids
        genres == info.genres
    IN  IF genre_ids.t = "none"
        THEN [exc |-> "TypeError", val |-> FALSE]    \* 16 in None
        ELSE IF \E i \in 1 .. Len(genre_ids.ids) : genre_ids.ids[i] = anime_genre_id
        THEN [exc |-> "", val |-> TRUE]
        ELSE IF genres.t = "none"
        THEN [exc |-> "TypeError", val |-> FALSE]    \* for genre in None
        ELSE [exc |-> "",
              val |-> \E i \in 1 .. Len(genres.items) :
                         /\ genres.items[i].dict
                         /\ genres.items[i].id = anime_genre_id]

(***************************************************************************)
(* CompletionChecker._is_long_time_no_update (completion_checker.py:148-164)*)
(***************************************************************************)
\* exceeds_threshold with >= for >
exceeds_threshold_inclusive(days_since_last) ==
    days_since_last >= suspicious_days_threshold

\* line 161
exceeds_threshold(days_since_last) == days_since_last > suspicious_days_threshold

\* _is_long_time_no_update answering True where the date cannot be used
is_long_time_no_update_true_on_error(last_air_date, t_now) ==
    LET last_date == fromisoformat(last_air_date)
    IN  IF last_date.exc # "" \/ last_date.aware
        THEN [val |-> TRUE, log |-> << <<"warning: last_air_date", "">> >>]
        ELSE [val |-> exceeds_threshold(timedelta_days(t_now, last_date.t)),
              log |-> <<>>]

_is_long_time_no_update(last_air_date, t_now) ==
    LET last_date == fromisoformat(last_air_date)
    IN  IF last_date.exc \in {"ValueError", "TypeError"}
        THEN [val |-> FALSE, log |-> << <<"warning: last_air_date", last_date.exc>> >>]
        ELSE IF last_date.aware   \* naive - aware: TypeError, caught on line 162
        THEN [val |-> FALSE, log |-> << <<"warning: last_air_date", "TypeError">> >>]
        ELSE [val |-> exceeds_threshold(timedelta_days(t_now, last_date.t)),
              log |-> <<>>]

(***************************************************************************)
(* CompletionChecker._check_tmdb_completion (completion_checker.py:84-122) *)
(***************************************************************************)
\* is_ended with the "not" forgotten
is_ended_forgot_not(status, in_production) ==
    status = Ended /\ in_production = "True"

\* is_ended without the in_production test
is_ended_ignores_production(status, in_production) == status = Ended

\* line 90
is_ended(status, in_production) == status = Ended /\ in_production # "True"

\* lines 94-104: next_episode is None
no_next_episode(info, t_now) ==
    LET last_air_date == info.last_air_date
        anime == IF DateTruthy(last_air_date) THEN _is_anime(info)
                 ELSE [exc |-> "", val |-> FALSE]
        stale == IF anime.val THEN _is_long_time_no_update(last_air_date, t_now)
                 ELSE [val |-> FALSE, log |-> <<>>]
    IN  IF anime.exc # "" THEN Raises(anime.exc, <<>>)
        ELSE IF stale.val
        THEN Returns(SUSPICIOUS_COMPLETED,
                     Reason("anime: no next episode for more than threshold days",
                            <<>>, "", ""),
                     stale.log)
        ELSE Returns(COMPLETED_BY_TMDB,
                     Reason("no next episode scheduled", <<>>, "", ""), stale.log)

\* lines 106-118: there is a next_episode
has_next_episode(info, status, t_now) ==
    LET next_episode == info.next_episode_to_air
        next_air_date == next_episode.air_date
        next_date == fromisoformat(next_air_date)
        default(log) ==
            Returns(ONGOING, Reason("ongoing", status, "", ""), log)
    IN  IF next_episode.t # "dict" THEN Raises("AttributeError", <<>>)
        ELSE IF ~DateTruthy(next_air_date) THEN default(<<>>)
        ELSE IF next_date.exc = "ValueError"
        THEN default(<< <<"warning: next air_date", "ValueError">> >>)
        ELSE IF next_date.exc # "" THEN Raises(next_date.exc, <<>>)
        ELSE IF next_date.aware THEN Raises("TypeError", <<>>)  \* aware < naive
        ELSE IF next_date.t < t_now
        THEN Returns(ONGOING,
                     Reason("next episode air date has passed", <<>>, "", ""),
                     <<>>)
        ELSE default(<<>>)

\* lines 85-118: the body of the try block
check_tmdb_try(info, t_now) ==
    LET raw == IF info.status.t = "missing" THEN [t |-> "str", s |-> <<>>]
               ELSE info.status
        status == strip(raw.s)
        in_production == IF info.in_production = "missing" THEN "True"
                         ELSE info.in_production
    IN  IF info.t # "dict" THEN Raises("AttributeError", <<>>)
        ELSE IF raw.t # "str" THEN Raises("AttributeError", <<>>)
        ELSE IF is_ended(status, in_production)
        THEN Returns(COMPLETED_BY_TMDB,
                     Reason("ended", status, in_production, ""), <<>>)
        ELSE IF info.next_episode_to_air.t \in {"missing", "none"}
        THEN no_next_episode(info, t_now)
        ELSE has_next_episode(info, status, t_now)

\* the except clause re-raising instead of returning UNKNOWN
tmdb_except_reraise(r) == r

\* lines 120-122: except Exception
tmdb_except(r) ==
    Returns(UNKNOWN, Reason("tmdb data error", <<>>, "", r.exc),
            r.log \o << <<"error: tmdb", r.exc>> >>)

_check_tmdb_completion(info, t_now) ==
    LET r == check_tmdb_try(info, t_now)
    IN  IF r.exc # "" THEN tmdb_except(r) ELSE r

(***************************************************************************)
(* CompletionChecker.check_completion_status (completion_checker.py:49-69) *)
(***************************************************************************)
\* "if tmdb_info is not None" for "if tmdb_info"
has_tmdb_info_not_none(info) == info.t = "dict"

\* line 51
has_tmdb_info(info) == DictTruthy(info)

\* check_completion_status without the test of line 53
check_completion_status_keeps_unknown(info, exists, complete, t_now) ==
    IF DictTruthy(info) THEN _check_tmdb_completion(info, t_now)
    ELSE IF exists /\ complete
    THEN Returns(COMPLETED_BY_LOCAL,
                 Reason("local library holds all episodes", <<>>, "", ""), <<>>)
    ELSE Returns(ONGOING, Reason("not enough information", <<>>, "", ""), <<>>)

check_completion_status(info, exists, complete, t_now) ==
    LET tmdb == IF has_tmdb_info(info) THEN _check_tmdb_completion(info, t_now)
                ELSE Returns(UNKNOWN, Reason("", <<>>, "", ""), <<>>)
    IN  IF tmdb.exc # ""
        THEN \* lines 67-69: except Exception
             Returns(UNKNOWN, Reason("check error", <<>>, "", tmdb.exc),
                     tmdb.log \o << <<"error: check", tmdb.exc>> >>)
        ELSE IF has_tmdb_info(info) /\ tmdb.status # UNKNOWN
        THEN [tmdb EXCEPT !.log = @ \o << <<"info: tmdb", "">> >>]
        ELSE IF exists /\ complete
        THEN Returns(COMPLETED_BY_LOCAL,
                     Reason("local library holds all episodes", <<>>, "", ""),
                     tmdb.log \o << <<"info: local", "">> >>)
        ELSE Returns(ONGOING,
                     Reason("not enough information", <<>>, "", ""), tmdb.log)

(***************************************************************************)
(* The checker as a state machine: one provider record, one call.          *)
(***************************************************************************)
NoResult == Returns("", Reason("", <<>>, "", ""), <<>>)

CheckerInit ==
    /\ tmdb_info \in TmdbInfos \cup {None}
    /\ now \in {NowDay * UnitsPerDay + f : f \in 0 .. UnitsPerDay - 1}
    /\ local_exists = FALSE
    /\ local_complete = FALSE
    /\ called = ""
    /\ result = NoResult

\* a caller invokes check_completion_status(media_info, tmdb_info, e, c)
CallCheckCompletionStatus ==
    /\ called = ""
    /\ \E e \in BOOLEAN, c \in BOOLEAN :
          /\ local_exists' = e
          /\ local_complete' = c
          /\ result' = check_completion_status(tmdb_info, e, c, now)
    /\ called' = "check_completion_status"
    /\ UNCHANGED <<tmdb_info, now>>
    /\ UNCHANGED <<migration_vars, lookup_vars>>

\* a caller invokes _check_tmdb_completion(media_info, tmdb_info), as
\* line 198 does
CallCheckTmdbCompletion ==
    /\ called = ""
    /\ result' = _check_tmdb_completion(tmdb_info, now)
    /\ called' = "_check_tmdb_completion"
    /\ UNCHANGED <<tmdb_info, now, local_exists, local_complete>>
    /\ UNCHANGED <<migration_vars, lookup_vars>>

(***************************************************************************)
(* The RSS_TVS table and the session (add_completion_fields.py).           *)
(* A row maps each of the four columns to its value; "-" where the table   *)
(* has no such column.  ALTER TABLE is transactional (SQLite).             *)
(***************************************************************************)
\* migration_sql, lines 23-28, and the DEFAULT of each column
migration_sql ==
    << [column |-> "COMPLETION_STATUS", default |-> "UNKNOWN"],
       [column |-> "TMDB_STATUS", default |-> "NULL"],
       [column |-> "LAST_COMPLETION_CHECK", default |-> "NULL"],
       [column |-> "COMPLETION_REASON", default |-> "NULL"] >>

\* needed_columns, line 103
needed_columns == {migration_sql[i].column : i \in 1 .. Len(migration_sql)}

RowIds == 1 .. NumRows

\* the rows a table with the columns cols can hold before the migration
RowsOf(cols) ==
    [COMPLETION_STATUS :
        IF "COMPLETION_STATUS" \in cols THEN {"NULL", "ONGOING"} ELSE {"-"},
     TMDB_STATUS : IF "TMDB_STATUS" \in cols THEN {"NULL"} ELSE {"-"},
     LAST_COMPLETION_CHECK :
        IF "LAST_COMPLETION_CHECK" \in cols THEN {"NULL"} ELSE {"-"},
     COMPLETION_REASON :
        IF "COMPLETION_REASON" \in cols THEN {"NULL", "manual"} ELSE {"-"}]

Tables ==
    UNION {[columns : {cols}, rows : [RowIds -> RowsOf(cols)]] :
             cols \in SUBSET needed_columns}

\* what str(e) contains when the column is already there
DuplicateColumn == "duplicate column name"
\* the failures a statement can meet for another reason
OtherFailures == {"database is locked"}

\* db.execute(ALTER TABLE RSS_TVS ADD COLUMN c ... DEFAULT d) with the
\* failure the environment injects ("" for none): the error, the table
execute_alter(table, stmt, failure) ==
    IF failure # "" THEN [err |-> failure, table |-> table]
    ELSE IF stmt.column \in table.columns
    THEN [err |-> DuplicateColumn, table |-> table]
    ELSE [err |-> "",
          table |-> [columns |-> table.columns \cup {stmt.column},
                     rows |-> [r \in RowIds |->
                        [table.rows[r] EXCEPT ![stmt.column] = stmt.default]]]]

\* db.execute(update_sql), lines 43-51
execute_update(table, failure) ==
    IF failure # "" THEN [err |-> failure, table |-> table]
    ELSE IF ~({"COMPLETION_STATUS", "COMPLETION_REASON"} \subseteq table.columns)
    THEN [err |-> "no such column", table |-> table]
    ELSE [err |-> "",
          table |-> [table EXCEPT !.rows = [r \in RowIds |->
             IF table.rows[r].COMPLETION_STATUS = "NULL"
             THEN [table.rows[r] EXCEPT !.COMPLETION_STATUS = "UNKNOWN",
                                        !.COMPLETION_REASON = "historical"]
             ELSE table.rows[r]]]]

\* line 36 never recognising the failure
already_exists_never(err) == FALSE

\* line 36 taking every failure for "already there"
already_exists_any(err) == TRUE

\* line 36: the failure is "the column is already there"
already_exists(err) == err \in {DuplicateColumn, "already exists"}

\* lines 104-111: missing_columns is not empty
migration_needed(table) == needed_columns \ table.columns # {}

\* the record of a finished run: its entry point, whether a statement met
\* a failure other than "already there", how it ended, the table it left
Finished(how, log, table) ==
    [entry |-> entry,
     faulted |-> \E i \in 1 .. Len(log) : log[i][1] = "fail",
     result |-> how,
     table |-> table]
\* upgrade raised e: execute_migration catches it and returns False (135-137)
Raised == IF entry = "execute_migration" THEN "False" ELSE "raised"

MigrationInit ==
    /\ db \in Tables
    /\ committed = db
    /\ mpc = [at |-> "idle", i |-> 0]
    /\ entry = ""
    /\ mlog = <<>>
    /\ runs = <<>>

\* the initialization caller calls upgrade(db)
StartUpgrade ==
    /\ mpc.at = "idle"
    /\ Len(runs) < MaxRuns
    /\ entry' = "upgrade"
    /\ mlog' = <<>>
    /\ mpc' = [at |-> "alter", i |-> 1]
    /\ UNCHANGED <<db, committed, runs>>
    /\ UNCHANGED <<checker_vars, lookup_vars>>

\* the initialization caller calls execute_migration(db)
StartExecuteMigration ==
    /\ mpc.at = "idle"
    /\ Len(runs) < MaxRuns
    /\ entry' = "execute_migration"
    /\ mlog' = <<>>
    /\ mpc' = [at |-> "check", i |-> 0]
    /\ UNCHANGED <<db, committed, runs>>
    /\ UNCHANGED <<checker_vars, lookup_vars>>

\* check_migration_needed, lines 98-115, and lines 129-133
CheckMigrationNeeded ==
    /\ mpc.at = "check"
    /\ \E failure \in {""} \cup OtherFailures :
          IF failure # ""
          THEN \* line 115: conservatively migrate
               /\ mlog' = Append(mlog, <<"fail", 0>>)
               /\ mpc' = [at |-> "alter", i |-> 1]
               /\ UNCHANGED runs
          ELSE IF migration_needed(db)
          THEN /\ mpc' = [at |-> "alter", i |-> 1]
               /\ UNCHANGED <<mlog, runs>>
          ELSE /\ mlog' = Append(mlog, <<"skip", 0>>)
               /\ runs' = Append(runs, Finished("True", mlog', committed))
               /\ mpc' = [at |-> "idle", i |-> 0]
    /\ UNCHANGED <<db, committed, entry>>
    /\ UNCHANGED <<checker_vars, lookup_vars>>

\* lines 30-40: one statement of migration_sql, and its except clause;
\* on "raise e" the outer handler (60-63) rolls back and re-raises
Alter ==
    /\ mpc.at = "alter"
    /\ \E failure \in {""} \cup OtherFailures :
          LET r == execute_alter(db, migration_sql[mpc.i], failure)
              ev == IF r.err = DuplicateColumn THEN "duplicate" ELSE "fail"
              next == IF mpc.i < Len(migration_sql)
                      THEN [at |-> "alter", i |-> mpc.i + 1]
                      ELSE [at |-> "update", i |-> 0]
          IN  IF r.err = ""
              THEN /\ db' = r.table
                   /\ mpc' = next
                   /\ UNCHANGED <<mlog, runs, committed>>
              ELSE IF already_exists(r.err)
              THEN \* lines 37-38: warn and continue
                   /\ mlog' = Append(mlog, <<ev, mpc.i>>)
                   /\ mpc' = next
                   /\ UNCHANGED <<db, runs, committed>>
              ELSE \* line 40, then lines 60-63
                   /\ mlog' = mlog \o << <<ev, mpc.i>>, <<"rollback", 0>> >>
                   /\ db' = committed
                   /\ runs' = Append(runs, Finished(Raised, mlog', committed))
                   /\ mpc' = [at |-> "idle", i |-> 0]
                   /\ UNCHANGED committed
    /\ UNCHANGED entry
    /\ UNCHANGED <<checker_vars, lookup_vars>>

\* lines 43-54: the backfill UPDATE, and its except clause
Update ==
    /\ mpc.at = "update"
    /\ \E failure \in {""} \cup OtherFailures :
          LET r == execute_update(db, failure)
          IN  IF r.err = ""
              THEN /\ db' = r.table
                   /\ UNCHANGED mlog
              ELSE /\ mlog' = Append(mlog, <<"fail", Len(migration_sql) + 1>>)
                   /\ UNCHANGED db
    /\ mpc' = [at |-> "commit", i |-> 0]
    /\ UNCHANGED <<committed, entry, runs>>
    /\ UNCHANGED <<checker_vars, lookup_vars>>

\* lines 56-58: db.commit() and return True; a failing commit is handled
\* by lines 60-63
Commit ==
    /\ mpc.at = "commit"
    /\ \E failure \in {""} \cup OtherFailures :
          IF failure = ""
          THEN /\ committed' = db
               /\ mlog' = Append(mlog, <<"commit", 0>>)
               /\ runs' = Append(runs, Finished("True", mlog', committed'))
               /\ UNCHANGED db
          ELSE /\ mlog' = mlog \o << <<"fail", Len(migration_sql) + 2>>,
                                     <<"rollback", 0>> >>
               /\ db' = committed
               /\ runs' = Append(runs, Finished(Raised, mlog', committed))
               /\ UNCHANGED committed
    /\ mpc' = [at |-> "idle", i |-> 0]
    /\ UNCHANGED entry
    /\ UNCHANGED <<checker_vars, lookup_vars>>

(***************************************************************************)
(* Media.get_media_info: the primary search and the fallback search by the *)
(* extracted Chinese name.  Strings of Han characters are written by the   *)
(* name of the test fixture that holds them.                               *)
(***************************************************************************)
\* the titles of tests/test_media_cn_fallback.py
_SAMPLE_TITLE == "[LoliHouse] _SAMPLE_CN / Hell Mode - 06 [WebRip 1080p HEVC-10bit AAC][..]"
_TSDM_TITLE == "[TSDM..] [_TSDM_CN][Eris no Seihai][06][HEVC-10bit 1080p AAC][MKV][..].."
_LATIN_TITLE == "Hell Mode - 06 [WebRip 1080p HEVC-10bit AAC]"
Titles == {_SAMPLE_TITLE, _TSDM_TITLE, _LATIN_TITLE}

\* MetaInfo(title).get_name(): the primary query name
primary_name(t) ==
    IF t = _TSDM_TITLE THEN "Eris no Seihai" ELSE "Hell Mode"

\* Media.__extract_cn_fallback_name: the candidate name, "" for none
extract_cn_fallback_name(t) ==
    IF t = _SAMPLE_TITLE THEN "_SAMPLE_CN"
    ELSE IF t = _TSDM_TITLE THEN "_TSDM_CN"
    ELSE ""

\* what __search_media_with_name can return: {} or a record with an id
EmptyResult == [id |-> 0, media_type |-> ""]
SearchResults ==
    {EmptyResult} \cup [id : 1 .. MaxTmdbId, media_type : {"TV", "MOVIE"}]

\* the second search issued whenever there is a candidate
fallback_due_always(first, cn_name) == cn_name # ""

\* a second search is due: the first matched nothing and there is a candidate
fallback_due(first, cn_name) == first = EmptyResult /\ cn_name # ""

\* identity fields are taken from a search result that matched
populate(info, r) ==
    IF r = EmptyResult THEN info
    ELSE [info EXCEPT !.tmdb_id = r.id, !.media_type = r.media_type]

NoMedia == [tmdb_id |-> 0, media_type |-> "", cn_name |-> ""]

LookupInit ==
    /\ title \in Titles
    /\ lpc = [at |-> "primary", n |-> 1]
    /\ search_calls = <<>>
    /\ search_results = <<>>
    /\ media_info = NoMedia

\* step 1: one search with the primary query name
PrimarySearch ==
    /\ lpc.at = "primary"
    /\ \E r \in SearchResults :
          /\ search_calls' = Append(search_calls, primary_name(title))
          /\ search_results' = Append(search_results, r)
          /\ media_info' = populate(media_info, r)
    /\ lpc' = [lpc EXCEPT !.at = "extract"]
    /\ UNCHANGED title
    /\ UNCHANGED <<checker_vars, migration_vars>>

\* step 2: the candidate name is stored whatever step 1 gave
ExtractCnName ==
    /\ lpc.at = "extract"
    /\ LET cn_name == extract_cn_fallback_name(title)
       IN  /\ media_info' = [media_info EXCEPT !.cn_name = cn_name]
           /\ lpc' = [lpc EXCEPT !.at =
                 IF fallback_due(search_results[1], cn_name)
                 THEN "fallback" ELSE "done"]
    /\ UNCHANGED <<title, search_calls, search_results>>
    /\ UNCHANGED <<checker_vars, migration_vars>>

\* step 3: the second search, with the candidate name
FallbackSearch ==
    /\ lpc.at = "fallback"
    /\ \E r \in SearchResults :
          /\ search_calls' = Append(search_calls, media_info.cn_name)
          /\ search_results' = Append(search_results, r)
          /\ media_info' = populate(media_info, r)
    /\ lpc' = [lpc EXCEPT !.at = "done"]
    /\ UNCHANGED title
    /\ UNCHANGED <<checker_vars, migration_vars>>

\* the caller resolves another title
NextLookup ==
    /\ lpc.at = "done"
    /\ lpc.n < MaxLookups
    /\ title' \in Titles
    /\ lpc' = [at |-> "primary", n |-> lpc.n + 1]
    /\ search_calls' = <<>>
    /\ search_results' = <<>>
    /\ media_info' = NoMedia
    /\ UNCHANGED <<checker_vars, migration_vars>>

\* MediaInfo.get_name(): the display name
get_name ==
    IF media_info.tmdb_id # 0 THEN "name of the match"
    ELSE IF media_info.cn_name # "" THEN media_info.cn_name
    ELSE primary_name(title)

(***************************************************************************)
(* Specifications: one per component; the others stay as constructed.      *)
(***************************************************************************)
CheckerIdle ==
    /\ tmdb_info = None
    /\ now = NowDay * UnitsPerDay
    /\ local_exists = FALSE
    /\ local_complete = FALSE
    /\ called = ""
    /\ result = NoResult

MigrationIdle ==
    /\ db = [columns |-> {}, rows |-> [r \in RowIds |-> CHOOSE x \in RowsOf({}) : TRUE]]
    /\ committed = db
    /\ mpc = [at |-> "idle", i |-> 0]
    /\ entry = ""
    /\ mlog = <<>>
    /\ runs = <<>>

LookupIdle ==
    /\ title = _LATIN_TITLE
    /\ lpc = [at |-> "idle", n |-> 0]
    /\ search_calls = <<>>
    /\ search_results = <<>>
    /\ media_info = NoMedia

Init == CheckerInit /\ MigrationIdle /\ LookupIdle
Next ==
    \/ CallCheckCompletionStatus
    \/ CallCheckTmdbCompletion
Spec == Init /\ [][Next]_vars

MigrationSpecInit == CheckerIdle /\ MigrationInit /\ LookupIdle
MigrationNext ==
    \/ StartUpgrade
    \/ StartExecuteMigration
    \/ CheckMigrationNeeded
    \/ Alter
    \/ Update
    \/ Commit
MigrationSpec == MigrationSpecInit /\ [][MigrationNext]_vars

LookupSpecInit == CheckerIdle /\ MigrationIdle /\ LookupInit
LookupNext ==
    \/ PrimarySearch
    \/ ExtractCnName
    \/ FallbackSearch
    \/ NextLookup
LookupSpec == LookupSpecInit /\ [][LookupNext]_vars

(***************************************************************************)
(* Properties of the checker (specification Spec).                         *)
(***************************************************************************)
Called == called # ""
IsDict == tmdb_info.t = "dict"
next_episode == tmdb_info.next_episode_to_air
last_air_date == tmdb_info.last_air_date
\* the record says status "Ended" and in_production False
EndedRecord ==
    /\ IsDict
    /\ tmdb_info.status = [t |-> "str", s |-> Ended]
    /\ tmdb_info.in_production = "False"
\* what line 90 tests: the stripped status is "Ended", in_production falsy
EndedAfterStrip ==
    /\ tmdb_info.status.t = "str"
    /\ strip(tmdb_info.status.s) = Ended
    /\ tmdb_info.in_production = "False"
\* status is a str, or absent
StatusIsStr == tmdb_info.status.t \in {"str", "missing"}
\* no next episode: the key is absent or None
NoNextEpisode == IsDict /\ next_episode.t \in {"missing", "none"}
\* a next episode whose air_date is an ISO date string
NextParses ==
    /\ IsDict
    /\ next_episode.t = "dict"
    /\ next_episode.air_date.t = "str"
    /\ next_episode.air_date.fmt = "iso"
\* ... strictly later than now
NextInFuture == NextParses /\ next_episode.air_date.day * UnitsPerDay > now
\* genre id 16 is in genre_ids or in an element of genres
GenrePresent ==
    \/ /\ tmdb_info.genre_ids.t = "list"
       /\ \E i \in 1 .. Len(tmdb_info.genre_ids.ids) :
             tmdb_info.genre_ids.ids[i] = 16
    \/ /\ tmdb_info.genres.t = "list"
       /\ \E i \in 1 .. Len(tmdb_info.genres.items) :
             tmdb_info.genres.items[i] = [dict |-> TRUE, id |-> 16]
\* last_air_date is a naive ISO date d whole days before now
LastAirDaysAgo(d) ==
    /\ last_air_date.t = "str"
    /\ last_air_date.fmt = "iso"
    /\ ~last_air_date.aware
    /\ (now - last_air_date.day * UnitsPerDay) \div UnitsPerDay = d
Logged(what) == \E i \in 1 .. Len(result.log) : result.log[i][1] = what
LoggedWith(what, exc) == \E i \in 1 .. Len(result.log) : result.log[i] = <<what, exc>>
LocalResult == IF local_exists /\ local_complete THEN COMPLETED_BY_LOCAL ELSE ONGOING

\* C1: a record with status "Ended" and in_production False is classified
\* COMPLETED_BY_TMDB by _check_tmdb_completion and by
\* check_completion_status, whatever its other fields and the local flags.
C1_EndedIsCompleted ==
    (Called /\ EndedRecord) =>
        /\ result.exc = ""
        /\ result.status = COMPLETED_BY_TMDB
        /\ result.reason.status = Ended
        /\ result.reason.in_production = "False"

\* C1 witness: an Ended record with a future next episode, an anime genre and
\* a stale last_air_date, checked with both local flags set.
C1_Witness ==
    /\ called = "check_completion_status"
    /\ EndedRecord
    /\ NextInFuture
    /\ GenrePresent
    /\ local_exists /\ local_complete
    /\ result.status = COMPLETED_BY_TMDB

\* C2 as claimed, read over well-typed records only: every record with a
\* next episode whose air_date parses and lies in the future is classified
\* ONGOING, whatever its status and in_production.
C2_Original ==
    (Called /\ NextInFuture /\ ~next_episode.air_date.aware /\ StatusIsStr) =>
        result.status = ONGOING

\* C2 amended: a record with a next episode whose air_date is a naive ISO
\* date in the future is classified ONGOING provided its status is a string
\* (or absent) and it is not an Ended record that is out of production.
C2_FutureEpisodeIsOngoing ==
    (Called /\ NextInFuture /\ ~next_episode.air_date.aware
       /\ StatusIsStr /\ ~EndedAfterStrip) =>
        /\ result.exc = ""
        /\ result.status = ONGOING
        /\ result.reason.msg = "ongoing"

\* C2 witness: status "Ended" but still in production, next episode tomorrow.
C2_Witness ==
    /\ Called
    /\ NextInFuture
    /\ ~next_episode.air_date.aware
    /\ tmdb_info.status = [t |-> "str", s |-> Ended]
    /\ tmdb_info.in_production = "True"
    /\ result.status = ONGOING

\* C3 as claimed, read over well-typed records only: with no next episode
\* and genre 16 present, the record is SUSPICIOUS_COMPLETED when
\* last_air_date is 8 days old and not when it is 7 days old.
C3_Original ==
    (Called /\ NoNextEpisode /\ GenrePresent /\ StatusIsStr
       /\ tmdb_info.genre_ids.t # "none") =>
        /\ LastAirDaysAgo(8) => result.status = SUSPICIOUS_COMPLETED
        /\ LastAirDaysAgo(7) => result.status # SUSPICIOUS_COMPLETED

\* C3 amended: the same, for records whose status is a string (or absent),
\* that are not Ended and out of production, and whose genre_ids is a list
\* (or absent): the staleness test is days-since-last-air > 7.
C3_StrictThreshold ==
    (Called /\ NoNextEpisode /\ GenrePresent /\ StatusIsStr
       /\ ~EndedAfterStrip /\ tmdb_info.genre_ids.t # "none") =>
        /\ LastAirDaysAgo(8) => result.status = SUSPICIOUS_COMPLETED
        /\ LastAirDaysAgo(7) => result.status = COMPLETED_BY_TMDB
        /\ \A d \in 0 .. NowDay + 1 :
              LastAirDaysAgo(d) =>
                 (result.status = SUSPICIOUS_COMPLETED <=> d > 7)

\* C3 witness: an anime record, not Ended, whose last_air_date is 8 days
\* (and a fraction of a day) old is SUSPICIOUS_COMPLETED; C3_WitnessSeven is
\* the 7-day case.
C3_Witness ==
    /\ Called /\ NoNextEpisode /\ GenrePresent /\ StatusIsStr /\ ~EndedAfterStrip
    /\ LastAirDaysAgo(8)
    /\ now % UnitsPerDay # 0
    /\ result.status = SUSPICIOUS_COMPLETED

C3_WitnessSeven ==
    /\ Called /\ NoNextEpisode /\ GenrePresent /\ StatusIsStr /\ ~EndedAfterStrip
    /\ LastAirDaysAgo(7)
    /\ result.status = COMPLETED_BY_TMDB

\* what the provider sub-algorithm yields on the record at hand
Provider == _check_tmdb_completion(tmdb_info, now)

\* C4 as claimed: if a provider record is present (not None) and the
\* sub-algorithm yields a status other than UNKNOWN, that (status, reason)
\* is returned; otherwise COMPLETED_BY_LOCAL if both flags, else ONGOING.
C4_Original ==
    called = "check_completion_status" =>
        IF IsDict /\ Provider.status # UNKNOWN
        THEN result.status = Provider.status /\ result.reason = Provider.reason
        ELSE result.status = LocalResult

\* C4 amended: the same with "present" read as "present and not empty":
\* the empty record is passed over like an absent one.
C4_Precedence ==
    called = "check_completion_status" =>
        /\ result.exc = ""
        /\ IF IsDict /\ tmdb_info # EmptyDict /\ Provider.status # UNKNOWN
           THEN result.status = Provider.status /\ result.reason = Provider.reason
           ELSE /\ result.status = LocalResult
                /\ result.reason.msg =
                      IF local_exists /\ local_complete
                      THEN "local library holds all episodes"
                      ELSE "not enough information"
        /\ result.status = COMPLETED_BY_LOCAL => local_exists /\ local_complete

\* C4 witness: the provider result wins over a complete local library.
C4_Witness ==
    /\ called = "check_completion_status"
    /\ local_exists /\ local_complete
    /\ IsDict
    /\ result.status = SUSPICIOUS_COMPLETED

\* a TypeError or AttributeError was raised somewhere during the call
StructuralErrorRaised ==
    \/ LoggedWith("error: tmdb", "TypeError")
    \/ LoggedWith("error: tmdb", "AttributeError")
    \/ LoggedWith("warning: last_air_date", "TypeError")

\* C8 as claimed: _check_tmdb_completion never raises, and whenever a
\* structural error occurs anywhere in it the status is UNKNOWN with the
\* error embedded in the reason.
C8_Original ==
    called = "_check_tmdb_completion" =>
        /\ result.exc = ""
        /\ result.status \in CompletionStatus
        /\ StructuralErrorRaised =>
              result.status = UNKNOWN /\ result.reason.err # ""

\* the wrong-typed fields that the procedure gets to use
StatusWrong == IsDict /\ tmdb_info.status.t = "none"
NextWrong ==
    /\ IsDict /\ StatusIsStr /\ ~EndedAfterStrip
    /\ \/ next_episode.t = "str"
       \/ /\ next_episode.t = "dict"
          /\ \/ next_episode.air_date.t = "int"
             \/ NextParses /\ next_episode.air_date.aware
GenresWrong ==
    /\ NoNextEpisode /\ StatusIsStr /\ ~EndedAfterStrip
    /\ DateTruthy(last_air_date)
    /\ \/ tmdb_info.genre_ids.t = "none"
       \/ /\ tmdb_info.genres.t = "none"
          /\ \A i \in 1 .. Len(tmdb_info.genre_ids.ids) :
                tmdb_info.genre_ids.ids[i] # 16
LastWrong ==
    /\ NoNextEpisode /\ StatusIsStr /\ ~EndedAfterStrip
    /\ GenrePresent /\ tmdb_info.genre_ids.t # "none"
    /\ \/ last_air_date.t = "int"
       \/ last_air_date.t = "str" /\ last_air_date.fmt = "iso" /\ last_air_date.aware

\* C8 amended: _check_tmdb_completion never raises and always returns a
\* (status, reason) pair; a wrong-typed status, next_episode_to_air,
\* air_date, genre_ids or genres that it gets to use gives UNKNOWN with the
\* error in the reason, and None gives the same; but a non-string or
\* timezone-aware last_air_date is caught inside _is_long_time_no_update and
\* gives COMPLETED_BY_TMDB ("not stale"), not UNKNOWN.
C8_NeverRaises ==
    called = "_check_tmdb_completion" =>
        /\ result.exc = ""
        /\ result.status \in CompletionStatus
        /\ result.reason.msg # ""
        /\ (~IsDict \/ StatusWrong \/ NextWrong \/ GenresWrong) =>
              /\ result.status = UNKNOWN
              /\ result.reason.err \in {"TypeError", "AttributeError"}
        /\ LastWrong =>
              /\ result.status = COMPLETED_BY_TMDB
              /\ LoggedWith("warning: last_air_date", "TypeError")
        /\ result.status = UNKNOWN <=> result.reason.err # ""

\* C8 witness: genre_ids is None on a record that gets as far as _is_anime.
C8_Witness ==
    /\ called = "_check_tmdb_completion"
    /\ GenresWrong
    /\ tmdb_info.genre_ids.t = "none"
    /\ result.status = UNKNOWN
    /\ result.reason.err = "TypeError"

C8_WitnessLast ==
    /\ called = "_check_tmdb_completion"
    /\ LastWrong
    /\ last_air_date.aware
    /\ result.status = COMPLETED_BY_TMDB

C9_WitnessNext ==
    /\ Called
    /\ Logged("warning: next air_date")
    /\ tmdb_info.status.s = ReturningSeries
    /\ result.status = ONGOING

\* C10: check_completion_status never returns the UNKNOWN of the provider
\* sub-algorithm: it returns one of the four other statuses; where the
\* sub-algorithm fails on a malformed record the answer is
\* COMPLETED_BY_LOCAL if both local flags are set and ONGOING otherwise,
\* without the error description; the empty record is treated as None is.
C10_UnknownNeverReturned ==
    called = "check_completion_status" =>
        /\ result.exc = ""
        /\ result.status \in CompletionStatus \ {UNKNOWN}
        /\ (IsDict /\ Provider.status = UNKNOWN) =>
              /\ result.status = LocalResult
              /\ result.reason.err = ""
              /\ result.reason.msg \in {"local library holds all episodes",
                                        "not enough information"}
        /\ (StatusWrong \/ NextWrong \/ GenresWrong) => result.status = LocalResult
        /\ tmdb_info \in {EmptyDict, None} =>
              /\ result.status = LocalResult
              /\ ~Logged("error: tmdb")

\* C10 witness: status is None and the local library is complete.
C10_Witness ==
    /\ called = "check_completion_status"
    /\ StatusWrong
    /\ local_exists /\ local_complete
    /\ Logged("error: tmdb")
    /\ result.status = COMPLETED_BY_LOCAL

C10_WitnessEmpty ==
    /\ called = "check_completion_status"
    /\ tmdb_info = EmptyDict
    /\ result.status = ONGOING

(***************************************************************************)
(* Properties of the migration (specification MigrationSpec).              *)
(***************************************************************************)
\* the run at hand met the event ev at statement i (1..4 ALTER, 5 UPDATE,
\* 6 commit, 0 PRAGMA)
Met(ev, i) == \E k \in 1 .. Len(mlog) : mlog[k] = <<ev, i>>
\* ... and ev2 later in the same run
MetLater(ev, i, ev2) ==
    \E k \in 1 .. Len(mlog) : \E j \in k + 1 .. Len(mlog) :
        mlog[k] = <<ev, i>> /\ mlog[j][1] = ev2
RunDone == mpc.at = "idle" /\ Len(runs) > 0
LastRun == runs[Len(runs)]
\* the exception of upgrade reaches upgrade's caller
UpgradeRaised ==
    LastRun.result = IF LastRun.entry = "upgrade" THEN "raised" ELSE "False"
AlterStatements == 1 .. Len(migration_sql)
UpdateStatement == Len(migration_sql) + 1

\* C5: the migration is idempotent.  From any table, two runs in sequence
\* by the same entry point (or upgrade first), neither of which meets a
\* failure other than "column already there", leave the columns and every
\* row as the first run left them, and the second run returns True.
C5_Idempotent ==
    \A k \in 1 .. Len(runs) - 1 :
        (/\ ~runs[k].faulted
         /\ ~runs[k + 1].faulted
         /\ runs[k].entry = "upgrade" \/ runs[k + 1].entry = "execute_migration") =>
            /\ runs[k + 1].table = runs[k].table
            /\ runs[k + 1].result = "True"
            /\ runs[k].result = "True"

\* C5 witness: upgrade has run twice without a failure; the first run added
\* columns and backfilled a row, the second skipped all four statements.
C5_Witness ==
    /\ mpc.at = "idle"
    /\ Len(runs) = 2
    /\ \A k \in 1 .. 2 : runs[k].entry = "upgrade" /\ ~runs[k].faulted
    /\ \A i \in AlterStatements : Met("duplicate", i)
    /\ \E r \in RowIds : committed.rows[r].COMPLETION_REASON = "historical"
    /\ \E r \in RowIds : committed.rows[r].TMDB_STATUS = "NULL"
    /\ runs[2].table = runs[1].table

\* C6 as claimed: a failure, other than "already there", of any statement
\* of the migration (the four ALTER TABLE and the UPDATE) is followed by no
\* commit, the transaction is rolled back and the failure is raised.
C6_Original ==
    \A i \in AlterStatements \cup {UpdateStatement} :
        Met("fail", i) =>
            /\ ~MetLater("fail", i, "commit")
            /\ RunDone => MetLater("fail", i, "rollback") /\ UpgradeRaised

\* C6 amended: this holds of each of the four ALTER TABLE statements (the
\* failure is raised by upgrade; execute_migration turns it into False);
\* a failure of the UPDATE is logged and ignored: no rollback follows from
\* it, the commit is attempted, and if that succeeds the run returns True.
C6_AlterFailureAborts ==
    /\ \A i \in AlterStatements :
          Met("fail", i) =>
             /\ ~MetLater("fail", i, "commit")
             /\ MetLater("fail", i, "rollback")
             /\ RunDone /\ UpgradeRaised
             /\ db = committed
             /\ LastRun.table = committed
    /\ Met("fail", UpdateStatement) =>
          /\ mpc.at \in {"commit", "idle"}
          /\ RunDone =>
                \/ Met("commit", 0) /\ LastRun.result = "True" /\ ~Met("rollback", 0)
                \/ /\ Met("fail", UpdateStatement + 1)
                   /\ Met("rollback", 0)
                   /\ UpgradeRaised
    /\ mpc.at = "idle" => db = committed

\* C6 witness: the fourth ALTER TABLE fails after the first three added
\* their columns; the columns are gone again and upgrade has raised.
C6_Witness ==
    /\ RunDone
    /\ Len(runs) = 1
    /\ LastRun.entry = "upgrade"
    /\ mlog = << <<"fail", 4>>, <<"rollback", 0>> >>
    /\ LastRun.result = "raised"
    /\ db.columns = {}

C6_WitnessUpdate ==
    /\ RunDone
    /\ Met("fail", UpdateStatement)
    /\ Met("commit", 0)
    /\ LastRun.result = "True"

(***************************************************************************)
(* Properties of the lookup (specification LookupSpec).                    *)
(***************************************************************************)
\* C7: a lookup issues at most two search calls, in sequence: the first
\* with the primary query name; a second one, with the candidate name, only
\* if the first returned the empty result and a candidate name exists; it
\* ends with one call if the first matched or there is no candidate, and
\* no call is repeated.
C7_AtMostTwoSearches ==
    /\ Len(search_calls) <= 2
    /\ Len(search_results) = Len(search_calls)
    /\ Len(search_calls) >= 1 => search_calls[1] = primary_name(title)
    /\ Len(search_calls) = 2 =>
          /\ search_results[1] = EmptyResult
          /\ extract_cn_fallback_name(title) # ""
          /\ search_calls[2] = extract_cn_fallback_name(title)
          /\ search_calls[2] # search_calls[1]
    /\ lpc.at = "done" =>
          /\ Len(search_calls) >= 1
          /\ (search_results[1] # EmptyResult
                \/ extract_cn_fallback_name(title) = "") => Len(search_calls) = 1
    /\ lpc.at = "fallback" => Len(search_calls) = 1

\* C7 witness: the primary search found nothing and the search by the
\* candidate name matched.
C7_Witness ==
    /\ lpc.at = "done"
    /\ title = _SAMPLE_TITLE
    /\ search_calls = <<"Hell Mode", "_SAMPLE_CN">>
    /\ search_results[1] = EmptyResult
    /\ media_info.tmdb_id # 0
    /\ media_info.cn_name = "_SAMPLE_CN"

C7_WitnessOneCall ==
    /\ lpc.at = "done"
    /\ title = _LATIN_TITLE
    /\ search_results = <<EmptyResult>>
    /\ get_name = "Hell Mode"

====
